---- MODULE Spec2Model ----
(***************************************************************************)
(* The catalog load of src/src/App.jsx: processData fans out ten safeFetch *)
(* retrievals, joins them with Promise.all, composes the identity index,   *)
(* the collections and the cases, and publishes the catalog with setData.  *)
(*                                                                         *)
(* JavaScript values are represented as follows.                           *)
(*   - a parsed JSON body is [kind |-> "array", elems |-> <<...>>] or      *)
(*     [kind |-> "object", elems |-> <<>>] (a body that is not an array);  *)
(*   - a plain object used as a map ({} filled by a reduce) is a function  *)
(*     from its own keys to values; reading a key goes through             *)
(*     Object.prototype when the object has no own property of that name;  *)
(*   - every skin object carries obj, its position in the parsed skins     *)
(*     array: two parsed records are two objects even when all their       *)
(*     fields agree, and a JS Set compares entries by object identity;     *)
(*   - a property a value does not have reads as Undefined.                *)
(*                                                                         *)
(* Record names and identifiers are ordinary strings. References range     *)
(* over them, over strings no record carries, and over "constructor", a    *)
(* name that every plain object inherits from Object.prototype.            *)
(***************************************************************************)
EXTENDS Integers, Sequences, FiniteSets, TLC

VARIABLES
    server,     \* the array each resource location serves when it answers with a JSON array
    outcome,    \* each retrieval: "inflight", "failed" or "json_array" (it delivered the array served)
    fetched,    \* the promise safeFetch returned for each resource
    phase,      \* processData: "fetching" (suspended at the join) or "done"
    data,       \* useState: the catalog
    isLoading,  \* useState: the loading flag
    error,      \* useState: the error message, Null when none
    view        \* useState: the page shown

vars == <<server, outcome, fetched, phase, data, isLoading, error, view>>

----------------------------------------------------------------------------
(* Bounds of the model *)

MaxFaults == 2        \* retrievals of one load that do not answer with their JSON array
MaxSkins == 2         \* records in skins.json
MaxRefs == 2          \* references in one contains / contains_rare list
MaxCollections == 1   \* records in collections.json when collections are composed alone
MaxCaseCollections == 2 \* records in collections.json when one case is composed
MaxCrates == 2        \* records in crates.json

----------------------------------------------------------------------------
(* JavaScript values *)

Null == "null"
Undefined == "undefined"

Array(s) == [kind |-> "array", elems |-> s]
EmptyArray == Array(<<>>)
NonArray == [kind |-> "object", elems |-> <<>>]

EmptyObject == <<>>

\* Object.prototype: what a plain object yields for a key it does not own.
\* The functions found there have neither id, type nor items.
ObjectPrototype ==
    [k \in {"constructor", "toString"} |->
        [obj |-> 0, id |-> Undefined, type |-> Undefined, inherited |-> k]]

\* o[k] = v on a plain object
Put(o, k, v) == [x \in (DOMAIN o) \cup {k} |-> IF x = k THEN v ELSE o[x]]

\* o[k] is truthy: an own property (always an object here) or an inherited one
Has(o, k) == k \in DOMAIN o \/ k \in DOMAIN ObjectPrototype

\* o[k], for a key that Has
Get(o, k) == IF k \in DOMAIN o THEN o[k] ELSE ObjectPrototype[k]

\* v.f
Field(v, f) == IF f \in DOMAIN v THEN v[f] ELSE Undefined

\* Array.prototype.push in the place of Set.prototype.add: no comparison
ArrayPush(s, v) == Append(s, v)

\* Set.prototype.add on an insertion-ordered Set: identity comparison
SetAdd(s, v) == IF \E i \in 1..Len(s) : s[i] = v THEN s ELSE Append(s, v)

Range(s) == {s[i] : i \in 1..Len(s)}

----------------------------------------------------------------------------
(* Source Loader: safeFetch *)

Resources ==
    <<"skins", "crates", "collections", "agents", "stickers",
      "patches", "graffiti", "music_kits", "tools", "keychains">>

ResourceNames == Range(Resources)

\* What one retrieval can meet.
Outcomes ==
    {"network_error",    \* fetch throws
     "not_ok",           \* response.ok is false
     "not_json",         \* content-type absent or not application/json
     "json_invalid",     \* JSON content type, body does not parse
     "json_non_array",   \* JSON content type, body parses to something that is no array
     "json_array"}       \* JSON content type, body parses to the array served

Pending == [state |-> "pending", value |-> [kind |-> "undefined", elems |-> <<>>]]
Fulfilled(v) == [state |-> "fulfilled", value |-> v]
Rejected(m) == [state |-> "rejected", value |-> [kind |-> "error", elems |-> <<>>, message |-> m]]

JsonSyntaxError == "Unexpected token in JSON"

\* The promise safeFetch(url) settles to. `return response.json()` hands the
\* parse promise back without awaiting it, so the surrounding try has been
\* left when the parse rejects, and whatever the body parses to is returned.
safeFetch(o, body) ==
    CASE o = "network_error" -> Fulfilled(EmptyArray)
      [] o = "not_ok" -> Fulfilled(EmptyArray)
      [] o = "not_json" -> Fulfilled(EmptyArray)
      [] o = "json_invalid" -> Rejected(JsonSyntaxError)
      [] o = "json_non_array" -> Fulfilled(NonArray)
      [] o = "json_array" -> Fulfilled(Array(body))

\* Promise.all: rejected as soon as one input is rejected, fulfilled once all are.
AnyRejected(ps) == \E r \in ResourceNames : ps[r].state = "rejected"
AllFulfilled(ps) == \A r \in ResourceNames : ps[r].state = "fulfilled"

\* Promise.race in the place of Promise.all: settled with the first input
JoinSettledEarly(ps) ==
    AnyRejected(ps) \/ \E r \in ResourceNames : ps[r].state = "fulfilled"

JoinSettled(ps) == AnyRejected(ps) \/ AllFulfilled(ps)

----------------------------------------------------------------------------
(* Identity Index *)

Ok(v) == [threw |-> FALSE, value |-> v]
Throw(m) == [threw |-> TRUE, message |-> m]

RECURSIVE SkinsByIdFrom(_, _)
SkinsByIdFrom(acc, skins) ==
    IF skins = <<>> THEN acc
    ELSE SkinsByIdFrom(Put(acc, Head(skins).id, Head(skins)), Tail(skins))

\* allSkins.reduce((acc, skin) => { acc[skin.id] = skin; return acc }, {})
skinsById(allSkins) == SkinsByIdFrom(EmptyObject, allSkins)

----------------------------------------------------------------------------
(* Collection Composer *)

\* collection.contains.map(skinRef => skinsById[skinRef.id]).filter(Boolean)
RECURSIVE ResolveItems(_, _)
ResolveItems(contains, idx) ==
    IF contains = <<>> THEN <<>>
    ELSE (IF Has(idx, Head(contains).id)
          THEN <<Get(idx, Head(contains).id)>>
          ELSE <<>>) \o ResolveItems(Tail(contains), idx)

\* if (collection.contains && collection.contains.length): an empty list is skipped
HasMembersNonEmpty(collection) ==
    "contains" \in DOMAIN collection /\ collection.contains # <<>>

\* if (collection.contains): an absent property is falsy, every array is truthy
HasMembers(collection) == "contains" \in DOMAIN collection

ComposeCollection(collection, idx) ==
    [name |-> collection.name,
     image |-> collection.image,
     contains |-> collection.contains,
     items |-> ResolveItems(collection.contains, idx)]

RECURSIVE CollectionsMapFrom(_, _, _)
CollectionsMapFrom(acc, collections, idx) ==
    IF collections = <<>> THEN acc
    ELSE CollectionsMapFrom(
            IF HasMembers(Head(collections))
            THEN Put(acc, Head(collections).name, ComposeCollection(Head(collections), idx))
            ELSE acc,
            Tail(collections), idx)

collectionsMap(allCollections, idx) == CollectionsMapFrom(EmptyObject, allCollections, idx)

----------------------------------------------------------------------------
(* Case Composer *)

\* collection.items.forEach(weapon => { if (weapon.type === 'Weapon') itemPool.add(weapon) })
RECURSIVE AddWeapons(_, _)
AddWeapons(pool, items) ==
    IF items = <<>> THEN pool
    ELSE AddWeapons(
            IF Field(Head(items), "type") = "Weapon" THEN SetAdd(pool, Head(items)) ELSE pool,
            Tail(items))

\* Step 2a. collectionsMap[collectionRef.name] that is truthy but has no items
\* makes collection.items.forEach throw a TypeError.
RECURSIVE AddCollections(_, _, _)
AddCollections(pool, refs, cm) ==
    IF refs = <<>> THEN Ok(pool)
    ELSE IF ~Has(cm, Head(refs).name) THEN AddCollections(pool, Tail(refs), cm)
    ELSE LET collection == Get(cm, Head(refs).name) IN
         IF "items" \notin DOMAIN collection
         THEN Throw("Cannot read properties of undefined (reading 'forEach')")
         ELSE AddCollections(AddWeapons(pool, collection.items), Tail(refs), cm)

\* Step 2b.
RECURSIVE AddRare(_, _, _)
AddRare(pool, refs, idx) ==
    IF refs = <<>> THEN pool
    ELSE AddRare(
            IF Has(idx, Head(refs).id) THEN SetAdd(pool, Get(idx, Head(refs).id)) ELSE pool,
            Tail(refs), idx)

\* The item pool of one crate of type Case, as Array.from(itemPool)
ItemPool(crate, cm, idx) ==
    LET fromCollections ==
            IF "contains" \in DOMAIN crate
            THEN AddCollections(<<>>, crate.contains, cm)
            ELSE Ok(<<>>)
    IN  IF fromCollections.threw THEN fromCollections
        ELSE Ok(IF "contains_rare" \in DOMAIN crate
                THEN AddRare(fromCollections.value, crate.contains_rare, idx)
                ELSE fromCollections.value)

\* The type guard left out
AnyCrate(crate) == TRUE

\* if (crate.type !== 'Case') return acc
IsCase(crate) == crate.type = "Case"

RECURSIVE CasesMapFrom(_, _, _, _)
CasesMapFrom(acc, crates, cm, idx) ==
    IF crates = <<>> THEN Ok(acc)
    ELSE IF ~IsCase(Head(crates)) THEN CasesMapFrom(acc, Tail(crates), cm, idx)
    ELSE LET pool == ItemPool(Head(crates), cm, idx) IN
         IF pool.threw THEN pool
         ELSE CasesMapFrom(
                Put(acc, Head(crates).name,
                    [name |-> Head(crates).name,
                     image |-> Head(crates).image,
                     items |-> pool.value]),
                Tail(crates), cm, idx)

casesMap(allCrates, cm, idx) == CasesMapFrom(EmptyObject, allCrates, cm, idx)

----------------------------------------------------------------------------
(* Catalog Store and the body of processData after the join *)

InitialData ==
    [collections |-> EmptyObject, cases |-> EmptyObject,
     agents |-> EmptyArray, stickers |-> EmptyArray, graffiti |-> EmptyArray,
     patches |-> EmptyArray, musicKits |-> EmptyArray, tools |-> EmptyArray,
     keychains |-> EmptyArray]

NotAFunction == "reduce is not a function"

\* Lines 69-130 on the ten fulfilment values: the catalog handed to setData,
\* or the exception that leaves the try block.
Compose(values) ==
    LET allSkins == values["skins"]
        allCrates == values["crates"]
        allCollections == values["collections"]
    IN  IF allSkins.kind # "array" THEN Throw(NotAFunction)
        ELSE LET idx == skinsById(allSkins.elems) IN
        IF allCollections.kind # "array" THEN Throw(NotAFunction)
        ELSE LET cm == collectionsMap(allCollections.elems, idx) IN
        IF allCrates.kind # "array" THEN Throw(NotAFunction)
        ELSE LET cases == casesMap(allCrates.elems, cm, idx) IN
        IF cases.threw THEN cases
        ELSE Ok([collections |-> cm, cases |-> cases.value,
                 agents |-> values["agents"], stickers |-> values["stickers"],
                 graffiti |-> values["graffiti"], patches |-> values["patches"],
                 musicKits |-> values["music_kits"], tools |-> values["tools"],
                 keychains |-> values["keychains"]])

Values(ps) == [r \in ResourceNames |-> ps[r].value]

FirstRejection(ps) ==
    (CHOOSE r \in ResourceNames : ps[r].state = "rejected")

----------------------------------------------------------------------------
(* What the resource locations serve *)

Image == "image"

SkinIds == {"s1", "s2"}
SkinTypes == {"Weapon", "Knife"}
RefIds == SkinIds \cup {"constructor"}
CollectionNames == {"c1", "c2"}
CollectionRefNames == CollectionNames \cup {"constructor"}
CrateNames == {"k1", "k2"}
CrateTypes == {"Case", "Sticker Capsule"}

\* The parsed skins.json: the i-th record is the object obj = i.
SkinCatalogs(n) ==
    UNION {{[i \in 1..k |-> [obj |-> i, id |-> f[i][1], type |-> f[i][2]]] :
                f \in [1..k -> SkinIds \X SkinTypes]} : k \in 0..n}

IdRefs == {[id |-> x] : x \in RefIds}
NameRefs == {[name |-> x] : x \in CollectionRefNames}

ListsOver(S, n) == UNION {[1..k -> S] : k \in 0..n}

CollectionRecords ==
    {[name |-> n, image |-> Image] : n \in CollectionNames}
    \cup {[name |-> n, image |-> Image, contains |-> l] :
            n \in CollectionNames, l \in ListsOver(IdRefs, MaxRefs)}

\* c1, c2, ... in this order, each with a declared member list
OrderedCollectionNames == <<"c1", "c2", "c3">>

NamedCollections(n) ==
    UNION {{[i \in 1..k |-> [name |-> OrderedCollectionNames[i], image |-> Image,
                              contains |-> f[i]]] :
                f \in [1..k -> ListsOver(IdRefs, MaxRefs)]} : k \in 0..n}

\* One crate of type Case with every combination of reference lists
CaseRecords ==
    {[name |-> "k1", image |-> Image, type |-> "Case"]}
    \cup {[name |-> "k1", image |-> Image, type |-> "Case", contains |-> c, contains_rare |-> r] :
            c \in ListsOver(NameRefs, MaxRefs), r \in ListsOver(IdRefs, MaxRefs)}

\* Two collections, and one case that draws on both and declares rare items;
\* every reference is to a skin identifier, carried by a skin record or not.
SkinRefs == {[id |-> x] : x \in SkinIds}

PoolCollections ==
    {<<[name |-> "c1", image |-> Image, contains |-> a],
       [name |-> "c2", image |-> Image, contains |-> b]>> :
        a, b \in ListsOver(SkinRefs, MaxRefs)}

PoolCase(rare) ==
    [name |-> "k1", image |-> Image, type |-> "Case",
     contains |-> <<[name |-> "c1"], [name |-> "c2"]>>,
     contains_rare |-> rare]

\* Crates of every type, with or without each reference list
CrateRecords ==
    {[name |-> n, image |-> Image, type |-> t] : n \in CrateNames, t \in CrateTypes}
    \cup {[name |-> n, image |-> Image, type |-> t, contains |-> <<[name |-> "c1"]>>] :
            n \in CrateNames, t \in CrateTypes}
    \cup {[name |-> n, image |-> Image, type |-> t, contains_rare |-> <<[id |-> "s2"]>>] :
            n \in CrateNames, t \in CrateTypes}
    \cup {[name |-> n, image |-> Image, type |-> t, contains |-> <<[name |-> "c1"]>>,
           contains_rare |-> <<[id |-> "s2"]>>] : n \in CrateNames, t \in CrateTypes}

\* The scenario of the repository's data: one weapon, one knife, one
\* collection holding both, one case drawing on the collection and the knife.
DefaultServed ==
    [r \in ResourceNames |->
        CASE r = "skins" ->
                <<[obj |-> 1, id |-> "s1", type |-> "Weapon"],
                  [obj |-> 2, id |-> "s2", type |-> "Knife"]>>
          [] r = "collections" ->
                <<[name |-> "c1", image |-> Image,
                   contains |-> <<[id |-> "s1"], [id |-> "s2"]>>]>>
          [] r = "crates" ->
                <<[name |-> "k1", image |-> Image, type |-> "Case",
                   contains |-> <<[name |-> "c1"]>>,
                   contains_rare |-> <<[id |-> "s2"]>>]>>
          [] OTHER -> <<[id |-> r, name |-> r]>>]

----------------------------------------------------------------------------
(* Presentation boundary: renderContent *)

HomeView == [page |-> "home", name |-> Undefined]

LoosePages == {"agents", "stickers", "graffiti", "patches", "musicKits", "tools", "keychains"}
ListPages == {"collections", "cases"}

\* if (error): null and the empty string are falsy
Truthy(e) == e # Null /\ e # ""

CatalogPage ==
    CASE view.page \in ListPages -> "ListPage"
      [] view.page \in LoosePages \cup {"collection", "case"} -> "ItemListPage"
      [] OTHER -> "HomePage"

\* renderContent without its `if (error)` line
renderContentIgnoringError ==
    IF isLoading THEN "LoadingSpinner" ELSE CatalogPage

renderContent ==
    IF isLoading THEN "LoadingSpinner"
    ELSE IF Truthy(error) THEN "ErrorMessage"
    ELSE CatalogPage

\* The views the buttons of the rendered page lead to
Reachable ==
    {HomeView}
    \cup (IF view.page = "home"
          THEN {[page |-> p, name |-> Undefined] : p \in ListPages \cup LoosePages}
          ELSE {})
    \cup (IF view.page \in {"home", "collections"}
          THEN {[page |-> "collection", name |-> n] : n \in DOMAIN data.collections}
          ELSE {})
    \cup (IF view.page \in {"home", "cases"}
          THEN {[page |-> "case", name |-> n] : n \in DOMAIN data.cases}
          ELSE {})

----------------------------------------------------------------------------
(* The load *)

Faults(o) == Cardinality({r \in ResourceNames : o[r] = "failed"})

\* What is remembered of a retrieval's outcome
Delivered(o) == IF o = "json_array" THEN "json_array" ELSE "failed"

Start(served) ==
    /\ server = served
    /\ outcome = [r \in ResourceNames |-> "inflight"]
    /\ fetched = [r \in ResourceNames |-> Pending]
    /\ phase = "fetching"
    /\ data = InitialData
    /\ isLoading = TRUE
    /\ error = Null
    /\ view = HomeView

\* All ten retrievals have answered with the array served; processData is
\* suspended at the join.
Joined(served) ==
    /\ server = served
    /\ outcome = [r \in ResourceNames |-> "json_array"]
    /\ fetched = [r \in ResourceNames |-> safeFetch("json_array", served[r])]
    /\ phase = "fetching"
    /\ data = InitialData
    /\ isLoading = TRUE
    /\ error = Null
    /\ view = HomeView

Init == Start(DefaultServed)

\* One retrieval settles (lines 22-40).
Settle(r) ==
    /\ fetched[r].state = "pending"
    /\ \E o \in Outcomes :
        /\ o # "json_array" => Faults(outcome) < MaxFaults
        /\ outcome' = [outcome EXCEPT ![r] = Delivered(o)]
        /\ fetched' = [fetched EXCEPT ![r] = safeFetch(o, server[r])]
    /\ UNCHANGED <<server, phase, data, isLoading, error, view>>

\* processData resumes from `await Promise.all` and runs to its end
\* (lines 66-137): composition and setData, or the catch, then the finally.
Resume ==
    /\ phase = "fetching"
    /\ JoinSettled(fetched)
    /\ phase' = "done"
    /\ isLoading' = FALSE
    /\ IF AnyRejected(fetched)
       THEN /\ error' = fetched[FirstRejection(fetched)].value.message
            /\ data' = data
       ELSE LET result == Compose(Values(fetched)) IN
            IF result.threw
            THEN /\ error' = result.message
                 /\ data' = data
            ELSE /\ data' = result.value
                 /\ error' = error
    /\ UNCHANGED <<server, outcome, fetched, view>>

\* A button of the rendered page calls setView.
SetView ==
    /\ renderContent \notin {"LoadingSpinner", "ErrorMessage"}
    /\ \E v \in Reachable : v # view /\ view' = v
    /\ UNCHANGED <<server, outcome, fetched, phase, data, isLoading, error>>

Next ==
    \/ \E r \in ResourceNames : Settle(r)
    \/ Resume
    \/ SetView

Spec == Init /\ [][Next]_vars

\* The composers on every small catalog: the retrievals have all succeeded.
InitCollections ==
    \E s \in SkinCatalogs(MaxSkins), c \in ListsOver(CollectionRecords, MaxCollections) :
        Joined([DefaultServed EXCEPT !["skins"] = s, !["collections"] = c])

InitCases ==
    \E s \in SkinCatalogs(MaxSkins), c \in NamedCollections(MaxCaseCollections),
       k \in CaseRecords :
        Joined([DefaultServed EXCEPT !["skins"] = s, !["collections"] = c, !["crates"] = <<k>>])

InitPools ==
    \E s \in SkinCatalogs(MaxSkins), c \in PoolCollections,
       r \in ListsOver(SkinRefs, MaxRefs) :
        Joined([DefaultServed EXCEPT !["skins"] = s, !["collections"] = c,
                                     !["crates"] = <<PoolCase(r)>>])

InitCrates ==
    \E k \in ListsOver(CrateRecords, MaxCrates) :
        Joined([DefaultServed EXCEPT !["crates"] = k])

NextCompose == Resume

SpecCollections == InitCollections /\ [][NextCompose]_vars
SpecCases == InitCases /\ [][NextCompose]_vars
SpecPools == InitPools /\ [][NextCompose]_vars
SpecCrates == InitCrates /\ [][NextCompose]_vars

----------------------------------------------------------------------------
(* What the claims speak of *)

\* The load has ended without an error: setData has run.
Published == phase = "done" /\ error = Null

\* The raw records the composition read (every retrieval fulfilled)
allSkins == fetched["skins"].value.elems
allCollections == fetched["collections"].value.elems
allCrates == fetched["crates"].value.elems

\* The Identity Index as the specification defines it: the last record of
\* each identifier.
IdentityIndex(skins) ==
    [id \in {skins[i].id : i \in 1..Len(skins)} |->
        skins[CHOOSE i \in 1..Len(skins) :
                /\ skins[i].id = id
                /\ \A j \in (i + 1)..Len(skins) : skins[j].id # id]]

\* The declared references that resolve, in declaration order
Resolving(contains, idx) ==
    LET known(ref) == ref.id \in DOMAIN idx IN SelectSeq(contains, known)

ExpectedItems(contains, idx) ==
    [j \in 1..Len(Resolving(contains, idx)) |-> idx[Resolving(contains, idx)[j].id]]

Declares(c) == "contains" \in DOMAIN c

\* The last raw collection record of a name that declares a member list
LastDeclaring(cs, n) ==
    cs[CHOOSE i \in 1..Len(cs) :
        /\ cs[i].name = n /\ Declares(cs[i])
        /\ \A j \in (i + 1)..Len(cs) : ~(cs[j].name = n /\ Declares(cs[j]))]

\* The last raw crate of type Case of a name
LastCase(ks, n) ==
    ks[CHOOSE i \in 1..Len(ks) :
        /\ ks[i].name = n /\ ks[i].type = "Case"
        /\ \A j \in (i + 1)..Len(ks) : ~(ks[j].name = n /\ ks[j].type = "Case")]

CollectionRefs(k) == IF "contains" \in DOMAIN k THEN Range(k.contains) ELSE {}
RareRefs(k) == IF "contains_rare" \in DOMAIN k THEN Range(k.contains_rare) ELSE {}

\* setData has been given the catalog composed from these ten values
HoldsCatalogOf(values) ==
    LET result == Compose(values) IN ~result.threw /\ data = result.value

\* The ten results the Source Loader contract promises: the array served, or
\* the empty sequence for a retrieval that failed.
PromisedValues ==
    [r \in ResourceNames |->
        IF outcome[r] = "json_array" THEN Array(server[r]) ELSE EmptyArray]

----------------------------------------------------------------------------
(* Claims *)

\* C1: whatever way one retrieval fails (network error, non-success status,
\* non-JSON content type, unparsable JSON body, body that is no array),
\* safeFetch yields the empty sequence for that resource, the load does not
\* end in the error state, and the catalog published is the one composed
\* from the other resources' records.
C1_FailureYieldsEmptyForThatResourceOnly ==
    /\ \A r \in ResourceNames :
            outcome[r] = "failed" => fetched[r] = Fulfilled(EmptyArray)
    /\ phase = "done" =>
            /\ error = Null
            /\ HoldsCatalogOf(PromisedValues)

\* C2: in a published catalog no two entries of a case's pool carry the same
\* item identifier. (An entry that carries no identifier at all is not an
\* item; such entries are the subject of C5.)
C2_PoolHasNoDuplicateIdentifier ==
    Published =>
        \A n \in DOMAIN data.cases :
            LET pool == data.cases[n].items IN
            \A i, j \in 1..Len(pool) :
                (i # j /\ Field(pool[i], "id") # Undefined)
                    => Field(pool[i], "id") # Field(pool[j], "id")

\* C2 witness: a published case whose pool holds once an item that the first
\* referenced collection lists twice, that a second referenced collection
\* lists too, and that contains_rare declares as well.
C2_Witness ==
    /\ Published
    /\ Len(allCrates) = 1
    /\ "contains" \in DOMAIN allCrates[1]
    /\ Len(allCrates[1].contains) = 2
    /\ LET k == allCrates[1]
           a == k.contains[1].name
           b == k.contains[2].name
       IN  /\ a # b
           /\ a \in DOMAIN data.collections
           /\ b \in DOMAIN data.collections
           /\ \E e \in Range(data.cases[k.name].items) :
                /\ e.type = "Weapon"
                /\ Cardinality({i \in 1..Len(data.collections[a].items) :
                                    data.collections[a].items[i] = e}) = 2
                /\ e \in Range(data.collections[b].items)
                /\ [id |-> e.id] \in RareRefs(k)
                /\ Cardinality({i \in 1..Len(data.cases[k.name].items) :
                                    data.cases[k.name].items[i] = e}) = 1

\* C3: the load composes every crate of type Case, and the item identifiers
\* in its pool are exactly those of the Weapon items of the composed
\* collections its references name, together with those of its contains_rare
\* references that are in the Identity Index; a reference to a collection
\* name that no collection record carries contributes nothing and is no error.
C3_PoolIsCollectionWeaponsAndRares ==
    phase = "done" =>
        /\ error = Null
        /\ \A n \in DOMAIN data.cases :
            LET k == LastCase(allCrates, n)
                idx == IdentityIndex(allSkins)
                known == {ref.name : ref \in CollectionRefs(k)} \cap DOMAIN data.collections
                weapons == UNION {{it.id : it \in {x \in Range(data.collections[c].items) :
                                                        Field(x, "type") = "Weapon"}} :
                                    c \in known}
                rares == {ref.id : ref \in RareRefs(k)} \cap DOMAIN idx
                identified == {e \in Range(data.cases[n].items) : Field(e, "id") # Undefined}
            IN  {e.id : e \in identified} = weapons \cup rares

\* C4: the resolved list of every composed collection is its declared
\* member references, in declaration order, mapped through the Identity
\* Index with the references to identifiers that are not in the index
\* deleted.
C4_ItemsAreResolvingReferencesInOrder ==
    Published =>
        \A n \in DOMAIN data.collections :
            data.collections[n].items =
                ExpectedItems(LastDeclaring(allCollections, n).contains,
                              IdentityIndex(allSkins))

\* C5: every entry of a collection's resolved list and of a case's pool is
\* the value the Identity Index of the same load holds under the entry's own
\* identifier.
C5_EntriesAreIndexedItems ==
    Published =>
        LET idx == IdentityIndex(allSkins)
            indexed(e) == /\ Field(e, "id") \in DOMAIN idx
                          /\ idx[Field(e, "id")] = e
        IN  /\ \A n \in DOMAIN data.collections :
                \A e \in Range(data.collections[n].items) : indexed(e)
            /\ \A n \in DOMAIN data.cases :
                \A e \in Range(data.cases[n].items) : indexed(e)

\* C6: no composed collection's resolved list holds two entries with the
\* same item identifier.
C6_CollectionHasNoDuplicateIdentifier ==
    Published =>
        \A n \in DOMAIN data.collections :
            LET items == data.collections[n].items IN
            \A i, j \in 1..Len(items) :
                i # j => Field(items[i], "id") # Field(items[j], "id")

\* C7 as stated: the collection mapping has an entry for a name exactly when
\* a raw record of that name declares at least one member reference.
C7_EntryIffAtLeastOneReference ==
    Published =>
        DOMAIN data.collections =
            {c.name : c \in {x \in Range(allCollections) :
                                Declares(x) /\ x.contains # <<>>}}

\* C7 as amended: the collection mapping has an entry for a name exactly
\* when a raw record of that name carries a declared member list, empty or
\* not; the entry is composed from the last such record, so a last record
\* with an empty list gives an entry with an empty resolved list.
C7_EntryIffMemberListDeclared ==
    Published =>
        /\ DOMAIN data.collections =
                {c.name : c \in {x \in Range(allCollections) : Declares(x)}}
        /\ \A n \in DOMAIN data.collections :
                LastDeclaring(allCollections, n).contains = <<>>
                    => data.collections[n].items = <<>>

\* C7 witness: a published catalog with a raw collection record whose
\* declared member list is empty and whose name has an entry.
C7_Witness ==
    /\ Published
    /\ \E i \in 1..Len(allCollections) :
        /\ Declares(allCollections[i])
        /\ allCollections[i].contains = <<>>
        /\ allCollections[i].name \in DOMAIN data.collections
        /\ data.collections[allCollections[i].name].items = <<>>

\* C8: the keys of the case mapping are exactly the names of the raw crates
\* of type Case, and a Case crate without any reference has an entry, whose
\* pool is empty unless a later Case crate of the same name replaced it.
C8_CaseKeysAreCaseCrateNames ==
    Published =>
        /\ DOMAIN data.cases = {k.name : k \in {x \in Range(allCrates) : x.type = "Case"}}
        /\ \A n \in DOMAIN data.cases :
                (CollectionRefs(LastCase(allCrates, n)) = {}
                 /\ RareRefs(LastCase(allCrates, n)) = {})
                    => data.cases[n].items = <<>>

\* C8 witness: a published catalog from a crate of another type, which has
\* no entry, and a Case crate without references, whose entry has an empty pool.
C8_Witness ==
    /\ Published
    /\ \E i, j \in 1..Len(allCrates) :
        /\ allCrates[i].type # "Case"
        /\ "contains" \in DOMAIN allCrates[i]
        /\ allCrates[i].name \notin DOMAIN data.cases
        /\ allCrates[j].type = "Case"
        /\ DOMAIN allCrates[j] = {"name", "image", "type"}
        /\ data.cases[allCrates[j].name].items = <<>>

\* C9: processData does not pass the join before all ten retrievals have
\* settled unless one of them rejected, the catalog is written at most once,
\* from the initial value, when all ten have fulfilled, and what it holds is
\* the catalog composed from all ten results.
C9_ComposedOnceFromAllTen ==
    /\ [](phase = "done" => (AllFulfilled(fetched) \/ AnyRejected(fetched)))
    /\ [](data # InitialData =>
            /\ AllFulfilled(fetched)
            /\ HoldsCatalogOf(Values(fetched)))
    /\ [][data' # data =>
            /\ data = InitialData
            /\ phase = "fetching"
            /\ AllFulfilled(fetched)]_vars

\* C9 witness: the catalog is published after retrievals that fell back to
\* the empty sequence and retrievals that delivered their records.
C9_Witness ==
    /\ data # InitialData
    /\ outcome["stickers"] = "failed"
    /\ outcome["agents"] = "failed"
    /\ fetched["stickers"] = Fulfilled(EmptyArray)
    /\ fetched["agents"] = Fulfilled(EmptyArray)
    /\ outcome["skins"] = "json_array"
    /\ data.collections # EmptyObject

\* C10: an exception in the composition leaves the error set, the loading
\* flag cleared and the catalog at its initial value; with the error set the
\* consumer renders the failure state; with the loading flag cleared and no
\* error the catalog composed from the ten results is the one published.
C10_FatalErrorLeavesCatalogUnpublished ==
    /\ (phase = "done" /\ AllFulfilled(fetched) /\ Compose(Values(fetched)).threw)
            => (error # Null /\ ~isLoading /\ data = InitialData)
    /\ error # Null => renderContent = "ErrorMessage"
    /\ (~isLoading /\ error = Null)
            => (AllFulfilled(fetched) /\ HoldsCatalogOf(Values(fetched)))

\* C10 witness: the load has ended after the composition threw on a crates
\* body that is no array.
C10_Witness ==
    /\ phase = "done"
    /\ AllFulfilled(fetched)
    /\ outcome["crates"] = "failed"
    /\ fetched["crates"] = Fulfilled(NonArray)
    /\ Compose(Values(fetched)).threw
    /\ error = NotAFunction

====
